---- MODULE Spec2Model ----
(***************************************************************************)
(* Basis-Tracker: three serverless handlers that scrape cash bids and      *)
(* save them to a remote datastore.                                        *)
(*                                                                         *)
(*   csv      src/unnamed/part_000          Google-Sheet CSV handler       *)
(*   browser  src/api/fetch-basis.js:1-193  headless-browser handler       *)
(*   multi    src/api/fetch-basis.js:195-375 writeBidRow / writeBidCell    *)
(*                                                                         *)
(* Text is modelled as TLA+ strings, taken apart character by character.   *)
(* Numbers are fixed-point integers in units of 1/Scale, which is exact    *)
(* for every token the handlers' numeric pattern accepts (at most four     *)
(* decimals).                                                              *)
(***************************************************************************)
EXTENDS Integers, Sequences, FiniteSets, TLC

(***************************************************************************)
(* Characters and strings                                                  *)
(***************************************************************************)
Scale == 10000

Char(s, i) == SubSeq(s, i, i)

Digits == "0123456789"
Upper == "ABCDEFGHIJKLMNOPQRSTUVWXYZ"
Lower == "abcdefghijklmnopqrstuvwxyz"

IndexIn(alphabet, c) ==
  IF \E i \in 1..Len(alphabet) : Char(alphabet, i) = c
    THEN CHOOSE i \in 1..Len(alphabet) : Char(alphabet, i) = c
    ELSE 0

IsDigit(c) == IndexIn(Digits, c) > 0

IsSpace(c) == c \in {" ", "\t", "\r", "\n"}

LowerChar(c) == IF IndexIn(Upper, c) > 0 THEN Char(Lower, IndexIn(Upper, c)) ELSE c

RECURSIVE ToLowerCase(_)
ToLowerCase(s) ==
  IF Len(s) = 0 THEN ""
  ELSE LowerChar(Char(s, 1)) \o ToLowerCase(SubSeq(s, 2, Len(s)))

\* String.prototype.includes
Includes(s, t) ==
  \E i \in 1..(Len(s) - Len(t) + 1) : SubSeq(s, i, i + Len(t) - 1) = t

\* String.prototype.startsWith
StartsWith(s, t) == Len(s) >= Len(t) /\ SubSeq(s, 1, Len(t)) = t

\* Array.prototype.join(' ')
RECURSIVE JoinSpace(_)
JoinSpace(cells) ==
  IF Len(cells) = 0 THEN ""
  ELSE IF Len(cells) = 1 THEN cells[1]
  ELSE cells[1] \o " " \o JoinSpace(Tail(cells))

\* String.prototype.trim
RECURSIVE TrimLeft(_)
TrimLeft(s) ==
  IF Len(s) > 0 /\ IsSpace(Char(s, 1)) THEN TrimLeft(SubSeq(s, 2, Len(s))) ELSE s

RECURSIVE TrimRight(_)
TrimRight(s) ==
  IF Len(s) > 0 /\ IsSpace(Char(s, Len(s))) THEN TrimRight(SubSeq(s, 1, Len(s) - 1)) ELSE s

Trim(s) == TrimRight(TrimLeft(s))

\* cell.replace(/[$,]/g, '')
RECURSIVE StripCurrency(_)
StripCurrency(s) ==
  IF Len(s) = 0 THEN ""
  ELSE (IF Char(s, 1) \in {"$", ","} THEN "" ELSE Char(s, 1))
         \o StripCurrency(SubSeq(s, 2, Len(s)))

\* cell.replace(/[$,\s]/g, '')
RECURSIVE StripCurrencyAndSpace(_)
StripCurrencyAndSpace(s) ==
  IF Len(s) = 0 THEN ""
  ELSE (IF Char(s, 1) \in {"$", ","} \/ IsSpace(Char(s, 1)) THEN "" ELSE Char(s, 1))
         \o StripCurrencyAndSpace(SubSeq(s, 2, Len(s)))

AllDigits(s) == \A i \in 1..Len(s) : IsDigit(Char(s, i))

\* /^-?\d+(\.\d{1,4})?$/.test(cell)
NumericPattern(s) ==
  LET body == IF StartsWith(s, "-") THEN SubSeq(s, 2, Len(s)) ELSE s
      dot  == IndexIn(body, ".")
      int  == IF dot = 0 THEN body ELSE SubSeq(body, 1, dot - 1)
      frac == IF dot = 0 THEN "" ELSE SubSeq(body, dot + 1, Len(body))
  IN  /\ Len(int) >= 1
      /\ AllDigits(int)
      /\ dot > 0 => (Len(frac) >= 1 /\ Len(frac) <= 4 /\ AllDigits(frac))

RECURSIVE DigitsValue(_)
DigitsValue(s) ==
  IF Len(s) = 0 THEN 0
  ELSE 10 * DigitsValue(SubSeq(s, 1, Len(s) - 1)) + (IndexIn(Digits, Char(s, Len(s))) - 1)

RECURSIVE PadRight(_, _)
PadRight(s, n) == IF Len(s) >= n THEN s ELSE PadRight(s \o "0", n)

\* Number(cell) of a cell that matches NumericPattern, in units of 1/Scale
ToNumber(s) ==
  LET neg  == StartsWith(s, "-")
      body == IF neg THEN SubSeq(s, 2, Len(s)) ELSE s
      dot  == IndexIn(body, ".")
      int  == IF dot = 0 THEN body ELSE SubSeq(body, 1, dot - 1)
      frac == IF dot = 0 THEN "" ELSE SubSeq(body, dot + 1, Len(body))
      mag  == DigitsValue(int) * Scale + DigitsValue(PadRight(frac, 4))
  IN  IF neg THEN 0 - mag ELSE mag

(***************************************************************************)
(* Optional values: null is the empty sequence, a value n is <<n>>.        *)
(***************************************************************************)
Null == <<>>
Some(v) == <<v>>

(***************************************************************************)
(* CSV source: line splitter (part_000:35-46)                              *)
(***************************************************************************)
\* csvText.split('\n')
RECURSIVE SplitLines(_)
SplitLines(text) ==
  LET nl == IndexIn(text, "\n")
  IN  IF nl = 0 THEN <<text>>
      ELSE <<SubSeq(text, 1, nl - 1)>> \o SplitLines(SubSeq(text, nl + 1, Len(text)))

\* the character loop over one line: quotes toggle inQuotes, a comma outside
\* quotes ends the cell, every cell is trimmed
RECURSIVE CsvScan(_, _, _, _, _)
CsvScan(line, i, current, inQuotes, cells) ==
  IF i > Len(line) THEN Append(cells, Trim(current))
  ELSE LET char == Char(line, i)
       IN  IF char = "\"" THEN CsvScan(line, i + 1, current, ~inQuotes, cells)
           ELSE IF char = "," /\ ~inQuotes
                  THEN CsvScan(line, i + 1, "", inQuotes, Append(cells, Trim(current)))
           ELSE CsvScan(line, i + 1, current \o char, inQuotes, cells)

ParseCsvLine(line) == CsvScan(line, 1, "", FALSE, <<>>)

\* .filter(row => row.some(cell => cell.length > 0))
ParseCsv(csvText) ==
  LET lines == SplitLines(csvText)
      all   == [i \in 1..Len(lines) |-> ParseCsvLine(lines[i])]
  IN  SelectSeq(all, LAMBDA row : \E k \in 1..Len(row) : Len(row[k]) > 0)

(***************************************************************************)
(* Row classification and the numeric heuristic                            *)
(***************************************************************************)
RowText(row) == ToLowerCase(JoinSpace(row))

\* part_000:61-63 and fetch-basis.js:94-99: null, "corn" or "soybeans"
ClassifyRow(row) ==
  LET rowText == RowText(row)
  IN  IF Includes(rowText, "corn") /\ ~Includes(rowText, "popcorn") THEN Some("corn")
      ELSE IF Includes(rowText, "soybean") \/ Includes(rowText, "soy bean")
             THEN Some("soybeans")
      ELSE Null

\* part_000:67-70
CsvNumbers(row) ==
  LET cleaned == [k \in 1..Len(row) |-> Trim(StripCurrency(row[k]))]
      kept    == SelectSeq(cleaned, NumericPattern)
  IN  [k \in 1..Len(kept) |-> ToNumber(kept[k])]

\* fetch-basis.js:103-106
PageNumbers(row) ==
  LET cleaned == [k \in 1..Len(row) |-> StripCurrencyAndSpace(row[k])]
      kept    == SelectSeq(cleaned, NumericPattern)
  IN  [k \in 1..Len(kept) |-> ToNumber(kept[k])]

Abs(n) == IF n < 0 THEN 0 - n ELSE n

\* a slip: the bounds of the cash range taken as exclusive
InCashRangeExclusive(n) == n > 2 * Scale /\ n < 20 * Scale

\* n >= 2 && n <= 20
InCashRange(n) == n >= 2 * Scale /\ n <= 20 * Scale

\* a slip: the exclusion of the cash range forgotten
IsBasisCandidateLoose(n) ==
  /\ n >= 0 - 200 * Scale
  /\ n <= 200 * Scale
  /\ 2 * Abs(n) > Scale

\* n >= -200 && n <= 200 && Math.abs(n) > 0.5 && !(n >= 2 && n <= 20)
IsBasisCandidate(n) ==
  /\ n >= 0 - 200 * Scale
  /\ n <= 200 * Scale
  /\ 2 * Abs(n) > Scale
  /\ ~InCashRange(n)

\* for (const n of numbers) { ... }  (part_000:77-82, fetch-basis.js:113-123)
RECURSIVE HeuristicLoop(_, _, _, _)
HeuristicLoop(numbers, i, cashPrice, basisValue) ==
  IF i > Len(numbers) THEN [cashPrice |-> cashPrice, basisValue |-> basisValue]
  ELSE LET n == numbers[i]
       IN  HeuristicLoop(numbers, i + 1,
             IF InCashRange(n) /\ cashPrice = Null THEN Some(n) ELSE cashPrice,
             IF IsBasisCandidate(n) /\ basisValue = Null THEN Some(n) ELSE basisValue)

Heuristic(numbers) == HeuristicLoop(numbers, 1, Null, Null)

(***************************************************************************)
(* Configuration tables                                                    *)
(***************************************************************************)
ELEVATOR_NAME == "Mid-Iowa Cooperative"

\* Bounds of the model
MaxLocs == 2        \* how many entries of AGRICHARTS_LOCATIONS a run walks
MaxRows == 2        \* rows per scraped sheet or page
MaxRuns == 2        \* handler invocations per behaviour
MaxCopies == 2      \* rows the datastore holds per key before inserts block

\* fetch-basis.js:203-212, in table order
AllAgrichartsLocations ==
  << [name |-> "ADM Cedar Rapids",                 id |-> 66521, commodities |-> {"corn"}],
     [name |-> "Cargill Cedar Rapids (Corn Mill)", id |-> 26279, commodities |-> {"corn"}],
     [name |-> "Cargill Cedar Rapids",             id |-> 75163, commodities |-> {"soybeans"}],
     [name |-> "Shell Rock Soy",                   id |-> 82509, commodities |-> {"soybeans"}],
     [name |-> "La Porte City",                    id |-> 64477, commodities |-> {"corn"}],
     [name |-> "Pine Lake Corn Processors",        id |-> 75160, commodities |-> {"corn"}],
     [name |-> "POET Fairbank",                    id |-> 79809, commodities |-> {"corn"}],
     [name |-> "Sinclair (Mid-Iowa)",              id |-> 81965, commodities |-> {"corn"}] >>

AGRICHARTS_LOCATIONS ==
  SubSeq(AllAgrichartsLocations, 1,
         IF MaxLocs <= Len(AllAgrichartsLocations) THEN MaxLocs ELSE Len(AllAgrichartsLocations))

\* fetch-basis.js:220-222
TAMABENTON_LOCATIONS ==
  << [name |-> "Vinton (Tama-Benton)", id |-> 3076, commodities |-> {"corn"}] >>

NumLocs == Len(AGRICHARTS_LOCATIONS)

(***************************************************************************)
(* Regex-HTML source.  A page is the sequence of matches its regular       *)
(* expression yields, each match the tuple of captured groups as text.     *)
(***************************************************************************)
\* fetch-basis.js:297-299: no popcorn exclusion, soybean overrides corn
ClassifyBidRow(label) ==
  LET raw == ToLowerCase(label)
  IN  IF Includes(raw, "soybean") THEN Some("soybeans")
      ELSE IF Includes(raw, "corn") THEN Some("corn")
      ELSE Null

\* fetch-basis.js:343-345
ClassifySymbol(symbol) ==
  IF StartsWith(symbol, "ZS") THEN Some("soybeans")
  ELSE IF StartsWith(symbol, "ZC") THEN Some("corn")
  ELSE Null

HasBid(bids, key) == \E k \in 1..Len(bids) : bids[k].key = key

\* fetch-basis.js:292-302: while ((m = regex.exec(html)) !== null) { ... }
RECURSIVE BidRowLoop(_, _, _, _)
BidRowLoop(matches, i, loc, bids) ==
  IF i > Len(matches) THEN bids
  ELSE LET m         == matches[i]
           commodity == ClassifyBidRow(m[1])
       IN  IF commodity = Null \/ commodity[1] \notin loc.commodities
             THEN BidRowLoop(matches, i + 1, loc, bids)
           ELSE IF HasBid(bids, commodity[1])
             THEN BidRowLoop(matches, i + 1, loc, bids)
           ELSE BidRowLoop(matches, i + 1, loc,
                  Append(bids, [key |-> commodity[1], src |-> i, text |-> ToLowerCase(m[1]),
                                name |-> loc.name, commodity |-> commodity[1],
                                cashPrice |-> Null, basisValue |-> Some(ToNumber(m[2]))]))

ExtractBidRows(matches, loc) == BidRowLoop(matches, 1, loc, <<>>)

FindLocation(locId) ==
  LET hits == SelectSeq(TAMABENTON_LOCATIONS, LAMBDA l : l.id = locId)
  IN  IF Len(hits) = 0 THEN Null ELSE Some(hits[1])

\* fetch-basis.js:333-351
RECURSIVE BidCellLoop(_, _, _)
BidCellLoop(matches, i, bids) ==
  IF i > Len(matches) THEN bids
  ELSE LET m         == matches[i]
           loc       == FindLocation(DigitsValue(m[2]))
           commodity == ClassifySymbol(m[3])
       IN  IF loc = Null THEN BidCellLoop(matches, i + 1, bids)
           ELSE IF commodity = Null \/ commodity[1] \notin loc[1].commodities
             THEN BidCellLoop(matches, i + 1, bids)
           ELSE IF HasBid(bids, m[2] \o "-" \o commodity[1])
             THEN BidCellLoop(matches, i + 1, bids)
           ELSE BidCellLoop(matches, i + 1,
                  Append(bids, [key |-> m[2] \o "-" \o commodity[1], src |-> i, text |-> m[3],
                                name |-> loc[1].name, commodity |-> commodity[1],
                                cashPrice |-> Null, basisValue |-> Some(ToNumber(m[1]))]))

ExtractBidCells(matches) == BidCellLoop(matches, 1, <<>>)

(***************************************************************************)
(* What the scraped sites may serve                                        *)
(***************************************************************************)
SeqsUpTo(S, n) == UNION {[1..k -> S] : k \in 0..n}

RECURSIVE JoinLines(_)
JoinLines(lines) ==
  IF Len(lines) = 0 THEN ""
  ELSE IF Len(lines) = 1 THEN lines[1]
  ELSE lines[1] \o "\n" \o JoinLines(Tail(lines))

CsvLines ==
  { "Corn,,4.05,,-35,,",
    "Popcorn,,6.50,,-40",
    "\"Soybeans, Nov\",\"$10.20\",-45",
    "Corn,4.05,5.10",
    "Corn Bids,Cash,Basis",
    "Popcorn and Soybeans,9.50,-20",
    "corn,0.5,250,-30,20,2",
    "Soybean meal, 2 , 20.0001 ,-200" }

PageRows ==
  { <<"Corn", "$4.05", "-35", "Dec 2025">>,
    <<"Popcorn", "6.50", "-40">>,
    <<"Soy Beans", "$ 10.20", "- 45">>,
    <<"Corn", "4.05", "5.10">>,
    <<"Corn", "Cash", "Basis">>,
    <<"Soybeans", "1,000", "-0.5", "0.75", "12">> }

\* pages of writeBidRow('<label>', <basis>, ..., '<month>') calls: captured groups 1..3
BidRowPages ==
  { <<>>,
    << <<"Corn", "-35", "Dec 2025">>, <<"Corn", "-30.5", "Mar 2026">> >>,
    << <<"Soybeans", "-45", "Jan 2026">>, <<"Popcorn", "-40", "Dec 2025">> >>,
    << <<"Wheat", "-10", "Dec 2025">>, <<"Soybeans", "-45", "Jan 2026">>,
       <<"Corn", "-35", "Dec 2025">> >> }

\* pages of writeBidCell(<basis>, ..., 'c=..&l=<locId>&..', ..., quotes['<symbol>']) calls
BidCellPages ==
  { <<>>,
    << <<"-20", "9999", "ZCH26">>, <<"-35", "3076", "ZCH26">>, <<"-32.25", "3076", "ZCK26">> >>,
    << <<"-45", "3076", "ZSH26">> >> }

AllSources ==
  [ csv  |-> {JoinLines(ls) : ls \in SeqsUpTo(CsvLines, MaxRows)},
    page |-> {<<t>> : t \in SeqsUpTo(PageRows, MaxRows)},
    agri |-> BidRowPages,
    tama |-> BidCellPages,
    fetch |-> {"ok", "http", "throw"} ]

\* one fixed sheet, page and bid list per site, every fetch answered 200: the
\* day on which several requests meet the same data
FixedSources ==
  [ csv  |-> {"Corn,,4.05,,-35,,\nCorn Bids,Cash,Basis\ncorn,0.5,250,-30,20,2"},
    page |-> {<< << <<"Corn", "$4.05", "-35", "Dec 2025">>,
                    <<"Soy Beans", "$ 10.20", "- 45">> >> >>},
    agri |-> {<< <<"Corn", "-35", "Dec 2025">>, <<"Soybeans", "-45", "Jan 2026">> >>},
    tama |-> {<< <<"-35", "3076", "ZCH26">> >>},
    fetch |-> {"ok"} ]

\* the least the sites can serve for two invocations to meet on one key
RaceSources ==
  [ csv  |-> {"Corn,,4.05,,-35,,"},
    page |-> {<< << <<"Corn", "$4.05", "-35", "Dec 2025">> >> >>},
    agri |-> {<< <<"Soybeans", "-45", "Jan 2026">> >>},
    tama |-> {<< <<"-35", "3076", "ZCH26">> >>},
    fetch |-> {"ok"} ]

(***************************************************************************)
(* State                                                                   *)
(***************************************************************************)
VARIABLES
  db,           \* the datastore: rows held per (commodity, elevator_name) of today
  inv,          \* the handler invocations, one record per slot
  world,        \* what the sites serve: "all" (anything of AllSources), "fixed" or "race"
  runs,         \* invocations started so far
  queryFailed,  \* some existence query so far came back with an error and no data
  overlapped    \* some invocation so far started while another was in progress

vars == <<db, inv, world, runs, queryFailed, overlapped>>

sources ==
  CASE world = "all" -> AllSources
    [] world = "fixed" -> FixedSources
    [] OTHER -> RaceSources

Kinds == {"csv", "browser", "multi"}
Methods == {"GET", "POST"}

ElevatorNames ==
  {ELEVATOR_NAME} \cup {AGRICHARTS_LOCATIONS[i].name : i \in 1..NumLocs}
                  \cup {TAMABENTON_LOCATIONS[i].name : i \in 1..Len(TAMABENTON_LOCATIONS)}

Keys == {"corn", "soybeans"} \X ElevatorNames

Idle ==
  [ kind |-> "none", method |-> "none", pc |-> "idle",
    rows |-> <<>>, idx |-> 0, seen |-> <<>>, bids |-> <<>>, cur |-> Null, q |-> "none",
    saved |-> <<>>, skipped |-> <<>>, errors |-> <<>>, responses |-> <<>>,
    raised |-> FALSE, browser |-> "null", fetchFailed |-> {}, queried |-> {},
    input |-> <<>>, pin |-> Null ]

Init ==
  /\ db = [k \in Keys |-> 0]
  /\ inv = [h \in 1..1 |-> Idle]
  /\ world = "all"
  /\ runs = 0
  /\ queryFailed = FALSE
  /\ overlapped = FALSE

InitDay ==
  /\ db = [k \in Keys |-> 0]
  /\ inv = [h \in 1..1 |-> Idle]
  /\ world = "fixed"
  /\ runs = 0
  /\ queryFailed = FALSE
  /\ overlapped = FALSE

\* the two invocations that overlap
Racers == {1, 2}

InitRace ==
  /\ db = [k \in Keys |-> 0]
  /\ inv = [h \in Racers |-> Idle]
  /\ world = "race"
  /\ runs = 0
  /\ queryFailed = FALSE
  /\ overlapped = FALSE

(***************************************************************************)
(* Steps of a handler, as functions from its record to its next record     *)
(***************************************************************************)
\* the name an error of source idx is filed under (fetch-basis.js:284,311,324,360)
SourceName(idx) ==
  IF idx <= NumLocs THEN AGRICHARTS_LOCATIONS[idx].name ELSE "Tama-Benton"

\* the elevator an entry of source idx is saved under
SourceElevator(idx) ==
  IF idx <= NumLocs THEN AGRICHARTS_LOCATIONS[idx].name ELSE TAMABENTON_LOCATIONS[1].name

\* if (req.method !== 'GET') return 405; createClient(...) runs before any try
StartRecord(kind, method, clientOk, pin) ==
  LET base == [Idle EXCEPT !.kind = kind, !.method = method, !.pin = pin]
  IN  IF method # "GET" THEN [base EXCEPT !.pc = "ended", !.responses = <<405>>]
      ELSE IF ~clientOk THEN [base EXCEPT !.pc = "ended", !.raised = TRUE]
      ELSE [base EXCEPT !.idx = 1,
                        !.pc = CASE kind = "csv" -> "fetch"
                                 [] kind = "browser" -> "launch"
                                 [] OTHER -> "loc"]

\* multi: the for loop over AGRICHARTS_LOCATIONS, then source 2, then the summary
\* and res.status(200) (fetch-basis.js:280, 320, 364-374)
AdvanceSource(r) ==
  [r EXCEPT !.idx = @ + 1, !.bids = <<>>,
            !.pc = IF r.idx + 1 > NumLocs + 1 THEN "ended" ELSE "loc",
            !.responses = IF r.idx + 1 > NumLocs + 1 THEN Append(@, 200) ELSE @]

\* the next row of the sheet or page; the next bid of the location, or the next location
NextItem(r) ==
  IF r.kind = "multi"
    THEN IF r.bids # <<>>
           THEN [r EXCEPT !.cur = Some(Head(r.bids)), !.bids = Tail(r.bids), !.pc = "query"]
           ELSE AdvanceSource(r)
    ELSE [r EXCEPT !.idx = @ + 1, !.pc = "row"]

\* a slip: the multi handler's sources sharing one try block around the whole run
AfterThrowAborts(r) ==
  IF r.kind = "browser" THEN [r EXCEPT !.raised = TRUE, !.pc = "catch"]
  ELSE [r EXCEPT !.raised = TRUE, !.responses = Append(@, 500), !.pc = "ended"]

\* where an exception thrown by the current step lands:
\*   csv      part_000:139-143        catch: respond 500
\*   browser  fetch-basis.js:187-192  catch: close the browser, respond 500
\*   multi    fetch-basis.js:310-312, 359-361  the source's own catch: errors.push
AfterThrow(r) ==
  CASE r.kind = "csv"     -> [r EXCEPT !.raised = TRUE, !.responses = Append(@, 500),
                                       !.pc = "ended"]
    [] r.kind = "browser" -> [r EXCEPT !.raised = TRUE, !.pc = "catch"]
    [] OTHER ->
         AdvanceSource([r EXCEPT !.raised = TRUE,
                                 !.errors = Append(@, [source |-> SourceName(r.idx),
                                                       what |-> "exception"])])

\* part_000:24-46
CsvFetchStep(r, outcome, payload) ==
  IF outcome = "ok"
    THEN [r EXCEPT !.rows = ParseCsv(payload), !.input = Append(@, payload),
                   !.idx = 1, !.pc = "row"]
    ELSE AfterThrow(r)

\* fetch-basis.js:26-33
LaunchStep(r, outcome) ==
  IF outcome = "ok" THEN [r EXCEPT !.browser = "open", !.pc = "load"] ELSE AfterThrow(r)

RECURSIVE Flatten(_)
Flatten(tables) == IF Len(tables) = 0 THEN <<>> ELSE Head(tables) \o Flatten(Tail(tables))

\* fetch-basis.js:35-90: newPage .. page.evaluate, then the two nested for loops
LoadStep(r, outcome, payload) ==
  IF outcome = "ok"
    THEN [r EXCEPT !.rows = Flatten(payload), !.input = Append(@, payload),
                   !.idx = 1, !.pc = "row"]
    ELSE AfterThrow(r)

\* the numeric tokens of a row, as the handler of that kind extracts them
RowNumbers(kind, row) == IF kind = "csv" THEN CsvNumbers(row) ELSE PageNumbers(row)

\* a slip: a row without a basis value dropped without a record
RowStepSilent(r) ==
  LET row       == r.rows[r.idx]
      commodity == ClassifyRow(row)
      numbers   == RowNumbers(r.kind, row)
      found     == Heuristic(numbers)
      locals    == [src |-> r.idx, text |-> RowText(row), name |-> ELEVATOR_NAME,
                    commodity |-> commodity[1],
                    cashPrice |-> found.cashPrice, basisValue |-> found.basisValue]
      t         == [r EXCEPT !.seen = Append(@, [commodity |-> commodity,
                                 numbers |-> IF commodity = Null THEN <<>> ELSE numbers])]
  IN  IF commodity = Null THEN NextItem(t)
      ELSE IF Len(numbers) < 1 THEN NextItem(t)
      ELSE IF found.basisValue = Null THEN NextItem([t EXCEPT !.cur = Some(locals)])
      ELSE [t EXCEPT !.cur = Some(locals), !.pc = "query"]

\* one iteration of the row loop up to the datastore call
\* (part_000:57-93, fetch-basis.js:90-133); seen keeps what each iteration held
\* in its locals commodity and numbers
RowStep(r) ==
  LET row       == r.rows[r.idx]
      commodity == ClassifyRow(row)
      numbers   == RowNumbers(r.kind, row)
      found     == Heuristic(numbers)
      locals    == [src |-> r.idx, text |-> RowText(row), name |-> ELEVATOR_NAME,
                    commodity |-> commodity[1],
                    cashPrice |-> found.cashPrice, basisValue |-> found.basisValue]
      t         == [r EXCEPT !.seen = Append(@, [commodity |-> commodity,
                                 numbers |-> IF commodity = Null THEN <<>> ELSE numbers])]
  IN  IF commodity = Null THEN NextItem(t)
      ELSE IF Len(numbers) < 1 THEN NextItem(t)
      ELSE IF found.basisValue = Null
        THEN NextItem([t EXCEPT !.cur = Some(locals),
                                !.skipped = Append(@, [row |-> row, at |-> r.idx,
                                     reason |-> "Could not identify basis value"])])
      ELSE [t EXCEPT !.cur = Some(locals), !.pc = "query"]

\* after the last row (part_000:129, fetch-basis.js:170)
EndRowsStep(r) ==
  IF r.kind = "browser" THEN [r EXCEPT !.pc = "close"]
  ELSE [r EXCEPT !.responses = Append(@, 200), !.pc = "ended"]

\* a slip: existing.length > 1 for existing.length > 0
QueryStepOffByOne(r, held, outcome) ==
  LET asked == [r EXCEPT !.queried = @ \cup {r.idx}]
  IN  CASE outcome = "rows" ->
             IF held > 1
               THEN NextItem([asked EXCEPT !.q = "found",
                        !.skipped = Append(@, [row |-> <<r.cur[1].name, r.cur[1].commodity>>,
                                               at |-> r.idx, reason |-> "Already saved"])])
               ELSE [asked EXCEPT !.q = "empty", !.pc = "insert"]
        [] outcome = "error" -> [asked EXCEPT !.q = "failed", !.pc = "insert"]
        [] OTHER -> AfterThrow(asked)

\* a slip: the answer of the existence query never looked at
QueryStepIgnoresRows(r, held, outcome) ==
  LET asked == [r EXCEPT !.queried = @ \cup {r.idx}]
  IN  CASE outcome = "rows" -> [asked EXCEPT !.q = "empty", !.pc = "insert"]
        [] outcome = "error" -> [asked EXCEPT !.q = "failed", !.pc = "insert"]
        [] OTHER -> AfterThrow(asked)

\* const { data: existing } = await db.from(..).select('id').eq(..).limit(1);
\* if (existing && existing.length > 0) { skipped.push(..); continue / return }
\* (part_000:96-107, fetch-basis.js:136-147, 245-256); held = rows the store has
QueryStep(r, held, outcome) ==
  LET asked == [r EXCEPT !.queried = @ \cup {r.idx}]
  IN  CASE outcome = "rows" ->
             IF held > 0
               THEN NextItem([asked EXCEPT !.q = "found",
                        !.skipped = Append(@, [row |-> <<r.cur[1].name, r.cur[1].commodity>>,
                                               at |-> r.idx, reason |-> "Already saved"])])
               ELSE [asked EXCEPT !.q = "empty", !.pc = "insert"]
        [] outcome = "error" -> [asked EXCEPT !.q = "failed", !.pc = "insert"]
        [] OTHER -> AfterThrow(asked)

\* the entry built from the row's locals; src and text record the row it came from
Entry(cur) ==
  [ commodity |-> cur.commodity, elevator_name |-> cur.name,
    basis_value |-> cur.basisValue, cash_price |-> cur.cashPrice,
    src |-> cur.src, text |-> cur.text ]

\* const { error } = await db.from('basis_entries').insert(entry);
\* (part_000:120-126, fetch-basis.js:160-166, 267-273)
InsertStep(r, outcome) ==
  CASE outcome = "ok" -> NextItem([r EXCEPT !.saved = Append(@, Entry(r.cur[1]))])
    [] outcome = "error" ->
         NextItem([r EXCEPT !.errors = Append(@, [source |-> r.cur[1].name, what |-> "insert"])])
    [] OTHER -> AfterThrow(r)

\* await browser.close() on the success path (fetch-basis.js:170)
CloseStep(r, outcome) ==
  IF outcome = "ok" THEN [r EXCEPT !.browser = "closed", !.pc = "respond200"]
  ELSE AfterThrow(r)

\* if (browser) await browser.close() in the catch block (fetch-basis.js:188);
\* a close that throws there leaves the handler's promise rejected
CatchStep(r, outcome) ==
  IF r.browser = "null" THEN [r EXCEPT !.pc = "respond500"]
  ELSE IF outcome = "ok" THEN [r EXCEPT !.browser = "closed", !.pc = "respond500"]
  ELSE [r EXCEPT !.pc = "ended"]

\* res.status(..).json(..) of the browser handler (fetch-basis.js:172, 191)
RespondStep(r) ==
  [r EXCEPT !.responses = Append(@, IF r.pc = "respond200" THEN 200 ELSE 500),
            !.pc = "ended"]

\* one source of the multi handler up to its first saveEntry
\* (fetch-basis.js:281-308, 320-358)
SourceFetchStep(r, outcome, payload) ==
  CASE outcome = "ok" ->
         NextItem([r EXCEPT !.input = Append(@, payload),
                            !.bids = IF r.idx <= NumLocs
                                       THEN ExtractBidRows(payload, AGRICHARTS_LOCATIONS[r.idx])
                                       ELSE ExtractBidCells(payload)])
    [] outcome = "http" ->
         AdvanceSource([r EXCEPT !.fetchFailed = @ \cup {r.idx},
                                 !.errors = Append(@, [source |-> SourceName(r.idx),
                                                       what |-> "HTTP"])])
    [] OTHER -> AfterThrow([r EXCEPT !.fetchFailed = @ \cup {r.idx}])

(***************************************************************************)
(* Actions                                                                 *)
(***************************************************************************)
Slots == DOMAIN inv

Set(h, r) == inv' = [inv EXCEPT ![h] = r]

FetchOutcomes(r) == IF r.pin = Null THEN sources.fetch ELSE {"ok"}

Payloads(r, outcome) ==
  IF outcome # "ok" THEN {<<>>}
  ELSE IF r.pin # Null THEN {r.pin[1][Len(r.input) + 1]}
  ELSE CASE r.kind = "csv" -> sources.csv
         [] r.kind = "browser" -> sources.page
         [] OTHER -> IF r.idx <= NumLocs THEN sources.agri ELSE sources.tama

KeyOf(cur) == <<cur.commodity, cur.name>>

OthersBusy(h) == \E g \in Slots \ {h} : inv[g].pc \notin {"idle", "ended"}

\* an HTTP request reaches a handler
Invoke(h, limit) ==
  /\ inv[h].pc \in {"idle", "ended"}
  /\ runs < limit
  /\ \E kind \in Kinds, method \in Methods, clientOk \in BOOLEAN :
       Set(h, StartRecord(kind, method, clientOk, Null))
  /\ runs' = runs + 1
  /\ overlapped' = (overlapped \/ OthersBusy(h))
  /\ UNCHANGED <<db, world, queryFailed>>

\* the same handler is requested again while its sources still serve what they
\* served to the run that just ended with 200 and an empty errors list
Rerun(h) ==
  /\ inv[h].pc = "ended"
  /\ inv[h].responses = <<200>>
  /\ inv[h].errors = <<>>
  /\ runs < MaxRuns
  /\ Set(h, StartRecord(inv[h].kind, "GET", TRUE, Some(inv[h].input)))
  /\ runs' = runs + 1
  /\ overlapped' = (overlapped \/ OthersBusy(h))
  /\ UNCHANGED <<db, world, queryFailed>>

CsvFetch(h) ==
  /\ inv[h].pc = "fetch"
  /\ \E outcome \in FetchOutcomes(inv[h]) : \E payload \in Payloads(inv[h], outcome) :
       Set(h, CsvFetchStep(inv[h], outcome, payload))
  /\ UNCHANGED <<db, world, runs, queryFailed, overlapped>>

Launch(h) ==
  /\ inv[h].pc = "launch"
  /\ \E outcome \in {"ok", "throw"} : Set(h, LaunchStep(inv[h], outcome))
  /\ UNCHANGED <<db, world, runs, queryFailed, overlapped>>

Load(h) ==
  /\ inv[h].pc = "load"
  /\ \E outcome \in FetchOutcomes(inv[h]) \ {"http"} : \E payload \in Payloads(inv[h], outcome) :
       Set(h, LoadStep(inv[h], outcome, payload))
  /\ UNCHANGED <<db, world, runs, queryFailed, overlapped>>

Row(h) ==
  /\ inv[h].pc = "row"
  /\ inv[h].idx <= Len(inv[h].rows)
  /\ Set(h, RowStep(inv[h]))
  /\ UNCHANGED <<db, world, runs, queryFailed, overlapped>>

EndRows(h) ==
  /\ inv[h].pc = "row"
  /\ inv[h].idx > Len(inv[h].rows)
  /\ Set(h, EndRowsStep(inv[h]))
  /\ UNCHANGED <<db, world, runs, queryFailed, overlapped>>

SourceFetch(h) ==
  /\ inv[h].pc = "loc"
  /\ \E outcome \in FetchOutcomes(inv[h]) : \E payload \in Payloads(inv[h], outcome) :
       Set(h, SourceFetchStep(inv[h], outcome, payload))
  /\ UNCHANGED <<db, world, runs, queryFailed, overlapped>>

Query(h) ==
  /\ inv[h].pc = "query"
  /\ \E outcome \in {"rows", "error", "throw"} :
       /\ Set(h, QueryStep(inv[h], db[KeyOf(inv[h].cur[1])], outcome))
       /\ queryFailed' = (queryFailed \/ outcome = "error")
  /\ UNCHANGED <<db, world, runs, overlapped>>

Insert(h) ==
  /\ inv[h].pc = "insert"
  /\ \E outcome \in {"ok", "error", "throw"} :
       /\ outcome = "ok" => db[KeyOf(inv[h].cur[1])] < MaxCopies
       /\ Set(h, InsertStep(inv[h], outcome))
       /\ db' = IF outcome = "ok" THEN [db EXCEPT ![KeyOf(inv[h].cur[1])] = @ + 1] ELSE db
  /\ UNCHANGED <<world, runs, queryFailed, overlapped>>

Close(h) ==
  /\ inv[h].pc = "close"
  /\ \E outcome \in {"ok", "throw"} : Set(h, CloseStep(inv[h], outcome))
  /\ UNCHANGED <<db, world, runs, queryFailed, overlapped>>

Catch(h) ==
  /\ inv[h].pc = "catch"
  /\ \E outcome \in {"ok", "throw"} : Set(h, CatchStep(inv[h], outcome))
  /\ UNCHANGED <<db, world, runs, queryFailed, overlapped>>

Respond(h) ==
  /\ inv[h].pc \in {"respond200", "respond500"}
  /\ Set(h, RespondStep(inv[h]))
  /\ UNCHANGED <<db, world, runs, queryFailed, overlapped>>

Steps ==
  \/ \E h \in Slots : Rerun(h)
  \/ \E h \in Slots : CsvFetch(h)
  \/ \E h \in Slots : Launch(h)
  \/ \E h \in Slots : Load(h)
  \/ \E h \in Slots : Row(h)
  \/ \E h \in Slots : EndRows(h)
  \/ \E h \in Slots : SourceFetch(h)
  \/ \E h \in Slots : Query(h)
  \/ \E h \in Slots : Insert(h)
  \/ \E h \in Slots : Close(h)
  \/ \E h \in Slots : Catch(h)
  \/ \E h \in Slots : Respond(h)

\* one request, then re-requests of the same handler
Next ==
  \/ \E h \in Slots : Invoke(h, 1)
  \/ Steps

\* up to MaxRuns requests of any handlers
NextDay ==
  \/ \E h \in Slots : Invoke(h, MaxRuns)
  \/ Steps

\* one invocation on anything the sites may serve, and its re-requests
Spec == Init /\ [][Next]_vars

\* a day of requests that follow one another, the sites serving fixed data
SpecDay == InitDay /\ [][NextDay]_vars

\* two handler slots whose invocations may overlap
SpecRace == InitRace /\ [][NextDay]_vars

TypeOK ==
  /\ db \in [Keys -> 0..MaxCopies]
  /\ runs \in 0..MaxRuns
  /\ queryFailed \in BOOLEAN
  /\ overlapped \in BOOLEAN
  /\ \A h \in Slots :
       /\ inv[h].kind \in Kinds \cup {"none"}
       /\ inv[h].browser \in {"null", "open", "closed"}
       /\ Len(inv[h].responses) <= 1

(***************************************************************************)
(* Properties                                                              *)
(***************************************************************************)
Ended(h) == inv[h].pc = "ended"

\* the request was a GET and createClient returned: the handler's body ran
Ran(h) == inv[h].method = "GET" /\ inv[h].idx > 0

RowHandler(h) == inv[h].kind \in {"csv", "browser"}

\* the first element of numbers that satisfies P, null when there is none
FirstWhere(numbers, P(_)) ==
  IF \E i \in 1..Len(numbers) : P(numbers[i])
    THEN Some(numbers[CHOOSE i \in 1..Len(numbers) :
                        P(numbers[i]) /\ \A k \in 1..(i - 1) : ~P(numbers[k])])
    ELSE Null

\* the ranges as the specification words them, in units of 1/10000
Between2And20(n) == n >= 20000 /\ n <= 200000
BasisLike(n) == (n > 5000 \/ n < 0 - 5000) /\ n >= 0 - 2000000 /\ n <= 2000000

SkippedAt(h, j, reason) ==
  \E k \in 1..Len(inv[h].skipped) :
    inv[h].skipped[k].at = j /\ inv[h].skipped[k].reason = reason

SavedFrom(h, j) == \E k \in 1..Len(inv[h].saved) : inv[h].saved[k].src = j

C2_ExactlyOneResponse ==
  \A h \in Slots :
    Ended(h) =>
      /\ Len(inv[h].responses) = 1
      /\ inv[h].method # "GET" => inv[h].responses[1] = 405
      /\ (inv[h].method = "GET" /\ inv[h].raised) => inv[h].responses[1] = 500
      /\ (inv[h].method = "GET" /\ ~inv[h].raised) => inv[h].responses[1] = 200

\* C3: in the browser handler, once the browser was launched it is closed by the
\* time the invocation ends, whatever threw, and closed before a response is sent.
C3_BrowserClosedOnEveryExit ==
  \A h \in Slots :
    (inv[h].kind = "browser" /\ inv[h].browser # "null") =>
      /\ Ended(h) => inv[h].browser = "closed"
      /\ inv[h].responses # <<>> => inv[h].browser = "closed"

\* C4: in the multi-source handler a failed fetch (non-2xx or thrown) of a
\* source leaves exactly one errors entry for it and no saved entry for it, and
\* the run goes on: when it ends every source has been fetched and the response
\* is 200.
C4_FetchFailureIsolated ==
  \A h \in Slots :
    inv[h].kind = "multi" =>
      /\ \A i \in inv[h].fetchFailed :
           /\ Cardinality({k \in 1..Len(inv[h].errors) :
                             inv[h].errors[k].source = SourceName(i)}) = 1
           /\ \A k \in 1..Len(inv[h].saved) :
                inv[h].saved[k].elevator_name # SourceElevator(i)
      /\ (Ended(h) /\ Ran(h)) =>
           /\ inv[h].responses = <<200>>
           /\ Len(inv[h].input) + Cardinality(inv[h].fetchFailed) = NumLocs + 1

\* the first location's fetch failed, a later source was saved, the answer is 200
C4_FailedThenSaved ==
  \E h \in Slots :
    /\ inv[h].kind = "multi" /\ Ended(h)
    /\ 1 \in inv[h].fetchFailed
    /\ Len(inv[h].saved) >= 1
    /\ inv[h].responses = <<200>>

\* C5: a row or scraped label whose text contains "popcorn" resolves to no
\* commodity in every handler: it is never corn and no entry is saved for it.
C5_PopcornResolvesToNone ==
  \A h \in Slots :
    /\ \A k \in 1..Len(inv[h].saved) : ~Includes(inv[h].saved[k].text, "popcorn")
    /\ (inv[h].pc \in {"query", "insert"}) => ~Includes(inv[h].cur[1].text, "popcorn")

\* C6 as amended: for every commodity row with a numeric token, cash_price is
\* the first token in [2, 20] (null if none) and basis_value is the first token
\* with |n| > 0.5 and -200 <= n <= 200 that is not itself in [2, 20] (null if
\* none); the row Corn,,4.05,,-35,, yields corn, 4.05 and -35.
C6_FirstTokenOutsideCashRange ==
  \A h \in Slots :
    (RowHandler(h) /\ inv[h].cur # Null) =>
      LET cur     == inv[h].cur[1]
          row     == inv[h].rows[cur.src]
          numbers == inv[h].seen[cur.src].numbers
          Basis(n) == BasisLike(n) /\ ~Between2And20(n)
      IN  /\ cur.cashPrice = FirstWhere(numbers, Between2And20)
          /\ cur.basisValue = FirstWhere(numbers, Basis)
          /\ row = <<"Corn", "", "4.05", "", "-35", "", "">> =>
               /\ cur.commodity = "corn"
               /\ cur.cashPrice = Some(40500)
               /\ cur.basisValue = Some(0 - 350000)

\* the row of the example has been classified, and so has a row whose basis
\* token comes before its cash token
C6_ExampleRowClassified ==
  \E h \in Slots :
    /\ inv[h].kind = "csv" /\ inv[h].cur # Null
    /\ inv[h].rows[inv[h].cur[1].src] = <<"Corn", "", "4.05", "", "-35", "", "">>
    /\ inv[h].cur[1].cashPrice = Some(40500)
    /\ inv[h].cur[1].basisValue = Some(0 - 350000)

\* C6 as stated: basis_value is the first remaining token, any token other than
\* the one claimed as cash_price, with |n| > 0.5 and -200 <= n <= 200.
C6_FirstRemainingToken ==
  \A h \in Slots :
    (RowHandler(h) /\ inv[h].cur # Null) =>
      LET cur     == inv[h].cur[1]
          numbers == inv[h].seen[cur.src].numbers
          claimed == IF \E i \in 1..Len(numbers) : Between2And20(numbers[i])
                       THEN CHOOSE i \in 1..Len(numbers) :
                              /\ Between2And20(numbers[i])
                              /\ \A k \in 1..(i - 1) : ~Between2And20(numbers[k])
                       ELSE 0
          rest    == {i \in 1..Len(numbers) : i # claimed /\ BasisLike(numbers[i])}
      IN  /\ cur.cashPrice = FirstWhere(numbers, Between2And20)
          /\ cur.basisValue =
               IF rest = {} THEN Null
               ELSE Some(numbers[CHOOSE i \in rest : \A k \in rest : i <= k])

\* C7: in the sheet and page handlers no token in [2, 20] is ever taken as
\* basis_value, and a commodity row whose numeric tokens (it has some) all lie
\* in [2, 20] is skipped with reason "Could not identify basis value" without
\* a datastore query or insert.
C7_CashRangeNeverBasis ==
  \A h \in Slots :
    RowHandler(h) =>
      /\ inv[h].cur # Null =>
           \A k \in 1..Len(inv[h].cur[1].basisValue) :
             ~Between2And20(inv[h].cur[1].basisValue[k])
      /\ \A k \in 1..Len(inv[h].saved) : ~Between2And20(inv[h].saved[k].basis_value[1])
      /\ \A j \in 1..Len(inv[h].seen) :
           LET numbers == inv[h].seen[j].numbers
           IN  ( /\ inv[h].seen[j].commodity # Null
                 /\ Len(numbers) >= 1
                 /\ \A i \in 1..Len(numbers) : Between2And20(numbers[i]) )
               => /\ SkippedAt(h, j, "Could not identify basis value")
                  /\ j \notin inv[h].queried
                  /\ ~SavedFrom(h, j)

\* a row with the tokens 4.05 and 5.10 has been skipped and the run went on to
\* answer 200 without a datastore call
C7_AllInRangeSkipped ==
  \E h \in Slots :
    /\ RowHandler(h) /\ Ended(h) /\ inv[h].responses = <<200>>
    /\ inv[h].queried = {}
    /\ \E j \in 1..Len(inv[h].seen) :
         /\ inv[h].seen[j].numbers = <<40500, 51000>>
         /\ SkippedAt(h, j, "Could not identify basis value")

C9_DuplicateNeedsOverlap ==
  (\E k \in Keys : db[k] >= 2) => (overlapped \/ queryFailed)

\* both invocations were told "no row" and both inserted: the key is held twice
C9_BothInserted ==
  /\ ~queryFailed
  /\ \E k \in Keys :
       /\ db[k] = 2
       /\ \A h \in Slots :
            /\ inv[h].q = "empty"
            /\ \E j \in 1..Len(inv[h].saved) :
                 <<inv[h].saved[j].commodity, inv[h].saved[j].elevator_name>> = k

\* C10: an insert is attempted only after the existence query just before it
\* completed successfully with zero rows; a failed query never leads to an insert.
C10_InsertOnlyAfterEmptyAnswer ==
  \A h \in Slots : inv[h].pc = "insert" => inv[h].q = "empty"

====
